---- MODULE Spec2Model ----
(***************************************************************************)
(* Model of two scripts of the repository:                                 *)
(*   - slack_guests_wo_exp.js: notifySlackAboutGuestsWithoutExpiration,    *)
(*     encodeQueryData and postToSlack (Google Apps Script);               *)
(*   - the Google Drive ownership-transfer script (fish + gam).            *)
(*                                                                         *)
(* JavaScript strings are sequences of atoms (short TLA+ strings); string  *)
(* concatenation is \o.  A reserved character is an atom of its own, so    *)
(* that encodeURIComponent and String.prototype.endsWith are computed.     *)
(* A JSON object is a function whose DOMAIN is the set of keys present.    *)
(***************************************************************************)
EXTENDS Integers, Sequences, FiniteSets, TLC

VARIABLES
    \* ---- notifySlackAboutGuestsWithoutExpiration ----
    directory,                \* which user records the workspace can hold
    token,                    \* script property SLACK_USER_TOKEN (NoProperty = null)
    teamId,                   \* var teamId
    channel,                  \* var channel
    pc,                       \* position of the run: start, fetch, post, done
    cursor,                   \* var cursor
    guestsWithoutExpiration,  \* var guestsWithoutExpiration
    requests,                 \* admin.users.list requests sent, in order
    requestCount,             \* how many of them: calls of UrlFetchApp.fetch on the list URL
    responses,                \* what UrlFetchApp.fetch gave for each of them
    posts,                    \* chat.postMessage requests sent, in order
    postResults,              \* what UrlFetchApp.fetch gave for each post
    log,                      \* Logger.log entries, in order
    propagated,               \* TRUE iff an exception left the function
    \* ---- Drive ownership-transfer script ----
    dpc,                      \* position of the fish script
    old_owner_email, new_owner_email, file_id,
    retain_access, old_owner_access_level, retain_role, root_id,
    gam,                      \* gam commands executed, in order, with exit status
    echoed                    \* lines written by echo

slackVars == <<directory, token, teamId, channel, pc, cursor, guestsWithoutExpiration,
               requests, requestCount, responses, posts, postResults, log, propagated>>
driveVars == <<dpc, old_owner_email, new_owner_email, file_id, retain_access,
               old_owner_access_level, retain_role, root_id, gam, echoed>>
vars == <<slackVars, driveVars>>

\* ------------------------------------------------------------------ bounds
MaxPages == 2   \* pages the workspace's user list has at most
MaxUsers == 1   \* user records on one page at most

MaxRequests == MaxPages + 1   \* cap on admin.users.list requests of one run

\* ------------------------------------------------------- strings and JSON
NoProperty == <<"\\null">>      \* getProperty's null for a missing property
EmptyString == <<>>

Has(obj, key) == key \in DOMAIN obj

\* JavaScript truthiness of a field, by the field's type.
TruthyFlag(obj, key) == Has(obj, key) /\ obj[key] = TRUE
TruthyNumber(obj, key) == Has(obj, key) /\ obj[key] # 0
TruthyString(obj, key) == Has(obj, key) /\ obj[key] # EmptyString

\* String.prototype.endsWith
EndsWith(s, suffix) ==
    /\ Len(s) >= Len(suffix)
    /\ SubSeq(s, Len(s) - Len(suffix) + 1, Len(s)) = suffix

\* A value inside a template literal or a string concatenation.
Interpolate(obj, key) == IF Has(obj, key) THEN obj[key] ELSE <<"undefined">>

\* Array.prototype.map, on a sequence.
RECURSIVE MapSeq(_, _)
MapSeq(F(_), s) ==
    IF s = <<>> THEN <<>> ELSE <<F(Head(s))>> \o MapSeq(F, Tail(s))

Digit(d) == <<"0", "1", "2", "3", "4", "5", "6", "7", "8", "9">>[d + 1]

RECURSIVE NumberToString(_)
NumberToString(n) ==
    IF n < 10 THEN <<Digit(n)>>
    ELSE NumberToString(n \div 10) \o <<Digit(n % 10)>>

\* encodeURIComponent: every reserved character becomes its percent escape.
PercentEscape(a) ==
    CASE a = "=" -> "%3D"
      [] a = "&" -> "%26"
      [] a = "@" -> "%40"
      [] a = ":" -> "%3A"
      [] OTHER -> a

encodeURIComponent(s) == MapSeq(PercentEscape, s)

RECURSIVE JoinWith(_, _)
JoinWith(parts, sep) ==
    IF parts = <<>> THEN <<>>
    ELSE IF Len(parts) = 1 THEN parts[1]
    ELSE parts[1] \o sep \o JoinWith(Tail(parts), sep)

\* encodeQueryData: data is the object's (key, value) pairs in insertion
\* order; a pair whose value is undefined is left out.
Undefined == <<"\\undefined">>

encodeQueryData(data) ==
    LET Pair(p) == encodeURIComponent(p[1]) \o <<"=">> \o encodeURIComponent(p[2])
        Defined == SelectSeq(data, LAMBDA p : p[2] # Undefined)
    IN JoinWith(MapSeq(Pair, Defined), <<"&">>)

\* ------------------------------------------------------------ user records
\* A user record of admin.users.list: id and full_name are always present,
\* every other field may be absent.
EmptyObject == [k \in {} |-> TRUE]

ExcludedDomain == <<"@", "domain.com">>          \* "@domain.com"

EmailOptions ==
    { EmptyObject,
      [email |-> EmptyString],
      [email |-> <<"ann", "@", "partner.org">>],
      [email |-> <<"bob", "@", "domain.com">>],
      [email |-> <<"eve", "@", "domain.com", ".", "evil.org">>] }

OutOfRange == 2147483647   \* stands for a time beyond the ECMAScript range

UserRecords ==
    { [id |-> <<"U0">>, full_name |-> <<"Guest">>] @@ d @@ r @@ u @@ e @@ x @@ c :
        d \in {EmptyObject, [is_deleted |-> FALSE], [is_deleted |-> TRUE]},
        r \in {EmptyObject, [is_restricted |-> FALSE], [is_restricted |-> TRUE]},
        u \in {EmptyObject, [is_ultra_restricted |-> FALSE], [is_ultra_restricted |-> TRUE]},
        e \in EmailOptions,
        x \in {EmptyObject, [expiration_ts |-> 0], [expiration_ts |-> 1767225600]},
        c \in {EmptyObject, [date_created |-> 0], [date_created |-> 1722211200],
               [date_created |-> OutOfRange]} }

\* The records the paginated runs draw their pages from: two that pass the
\* filter (one without email and with a creation date out of range), a guest
\* with an expiration, and a guest at the excluded domain.
SampleUsers ==
    { [id |-> <<"U1">>, full_name |-> <<"Ann">>, email |-> <<"ann", "@", "partner.org">>,
       is_restricted |-> TRUE, is_ultra_restricted |-> FALSE, is_deleted |-> FALSE,
       date_created |-> 1722211200],
      [id |-> <<"U2">>, full_name |-> <<"Raj">>, is_ultra_restricted |-> TRUE,
       expiration_ts |-> 0, date_created |-> OutOfRange],
      [id |-> <<"U3">>, full_name |-> <<"Kim">>, email |-> <<"kim", "@", "partner.org">>,
       is_restricted |-> TRUE, expiration_ts |-> 1767225600, date_created |-> 1],
      [id |-> <<"U4">>, full_name |-> <<"Bob">>, email |-> <<"bob", "@", "domain.com">>,
       is_restricted |-> TRUE, is_deleted |-> FALSE] }

\* new Date(seconds * 1000).toISOString(): the text, or a RangeError when the
\* time value is not a valid date.
ToISOString(seconds) ==
    CASE seconds = 1 -> [threw |-> FALSE, text |-> <<"1970-01-01T00", ":", "00", ":", "01.000Z">>]
      [] seconds = 1722211200 ->
             [threw |-> FALSE, text |-> <<"2024-07-29T00", ":", "00", ":", "00.000Z">>]
      [] seconds = OutOfRange -> [threw |-> TRUE, text |-> <<"RangeError">>]

\* ------------------------------------------------- the users.forEach body
\* acc = [guests |-> guestsWithoutExpiration, log |-> log]
CreationTime(user) ==
    IF TruthyNumber(user, "date_created")
    THEN LET iso == ToISOString(user.date_created)
         IN IF iso.threw THEN <<"Unknown">> ELSE iso.text
    ELSE <<"Unknown">>

CreationTimeLog(user) ==
    IF TruthyNumber(user, "date_created")
    THEN IF ToISOString(user.date_created).threw
         THEN <<"Error processing creation date for user">>
         ELSE <<>>
    ELSE <<"No creation date for user">>

\* A test that takes a zero timestamp for an expiration.
NoExpiration_AbsentOnly(user) == ~Has(user, "expiration_ts")

\* user.expiration_ts == 0 || user.expiration_ts === undefined
NoExpiration(user) == ~Has(user, "expiration_ts") \/ user.expiration_ts = 0

GuestEntry(user) ==
    (IF Has(user, "email") THEN [email |-> user.email] ELSE EmptyObject)
    @@ [creation_time |-> CreationTime(user), name |-> user.full_name, id |-> user.id]

ProcessUser(acc, user) ==
    LET l1 == Append(acc.log, "Processing user")
    IN IF TruthyFlag(user, "is_deleted")
       THEN [guests |-> acc.guests, log |-> Append(l1, "Skipping user (deleted)")]
       ELSE IF ~TruthyFlag(user, "is_restricted") /\ ~TruthyFlag(user, "is_ultra_restricted")
       THEN [guests |-> acc.guests, log |-> Append(l1, "Skipping user (not a guest)")]
       ELSE IF TruthyString(user, "email") /\ EndsWith(user.email, ExcludedDomain)
       THEN [guests |-> acc.guests, log |-> Append(l1, "Skipping user (OnePeloton email)")]
       ELSE IF NoExpiration(user)
       THEN [guests |-> Append(acc.guests, GuestEntry(user)),
             log |-> l1 \o CreationTimeLog(user)]
       ELSE [guests |-> acc.guests, log |-> l1]

RECURSIVE ForEachUser(_, _)
ForEachUser(acc, users) ==
    IF users = <<>> THEN acc
    ELSE ForEachUser(ProcessUser(acc, Head(users)), Tail(users))

\* ------------------------------------------------------ the summary message
FormatGuest(g) ==
    <<"*Email*", ":", " ">> \o Interpolate(g, "email")
    \o <<"\n*Name*", ":", " ">> \o g.name
    \o <<"\n*Creation Time*", ":", " ">> \o g.creation_time
    \o <<"\n*User ID*", ":", " ">> \o g.id

\* A formatter that keeps the first entry only.
FormatMessage_FirstOnly(guests) ==
    <<"Active guests without expiration", ":", "\n">> \o FormatGuest(guests[1])

FormatMessage(guests) ==
    <<"Active guests without expiration", ":", "\n">>
    \o JoinWith(MapSeq(FormatGuest, guests), <<"\n\n">>)

\* ----------------------------------------------------------- configuration
limit == 100
UsersListUrl == "https://slack.com/api/admin.users.list"
PostMessageUrl == "https://slack.com/api/chat.postMessage"

TokenValues == {NoProperty, EmptyString, <<"xoxp-1">>}
TeamIdValues == {EmptyString, <<"T024">>}
ChannelValues == {<<"C042">>}

Configured == token # NoProperty /\ token # EmptyString /\ teamId # EmptyString

\* --------------------------------------------------- the Slack Web API side
\* The workspace's user list has at most MaxPages pages; the cursor that
\* leads to page k names it.  A request without cursor asks for page 1.
CursorFor(k) == <<"page">> \o NumberToString(k) \o <<"=">>

PercentUnescape(a) ==
    CASE a = "%3D" -> "="
      [] a = "%26" -> "&"
      [] a = "%40" -> "@"
      [] a = "%3A" -> ":"
      [] OTHER -> a

decodeURIComponent(s) == MapSeq(PercentUnescape, s)

\* The pieces of s between the occurrences of sep: piece is the piece read so
\* far, pieces the finished ones, i the next position.
RECURSIVE SplitFrom(_, _, _, _, _)
SplitFrom(s, sep, i, piece, pieces) ==
    IF i > Len(s) THEN Append(pieces, piece)
    ELSE IF s[i] = sep THEN SplitFrom(s, sep, i + 1, <<>>, Append(pieces, piece))
    ELSE SplitFrom(s, sep, i + 1, Append(piece, s[i]), pieces)

SplitOn(s, sep) == SplitFrom(s, sep, 1, <<>>, <<>>)

DecodePair(kv) == <<decodeURIComponent(kv[1]), decodeURIComponent(kv[2])>>

FormField(p) == DecodePair(SplitOn(p, "="))

\* The form fields of an application/x-www-form-urlencoded body, decoded.
FormFields(body) ==
    IF body = <<>> THEN <<>> ELSE MapSeq(FormField, SplitOn(body, "&"))

HasKey(fields, key) == \E i \in 1..Len(fields) : fields[i][1] = key

Lookup(fields, key) == fields[CHOOSE i \in 1..Len(fields) : fields[i][1] = key][2]

HasField(body, key) == HasKey(FormFields(body), key)

FieldOf(body, key) == Lookup(FormFields(body), key)

\* The page a cursor leads to; 0 when it names no page.
PageOfCursor(c) ==
    IF \E k \in 2..MaxPages : CursorFor(k) = c
    THEN CHOOSE k \in 2..MaxPages : CursorFor(k) = c
    ELSE 0

PageOfFields(fields) ==
    IF HasKey(fields, <<"cursor">>) THEN PageOfCursor(Lookup(fields, <<"cursor">>)) ELSE 1

\* The page a request asks for; 0 when its cursor names no page.
PageAsked(request) == PageOfFields(FormFields(request.payload))

OneLonger(shorter, S) == shorter \cup {Append(q, x) : q \in shorter, x \in S}

RECURSIVE SeqsUpTo(_, _)
SeqsUpTo(S, n) ==
    IF n = 0 THEN {<<>>} ELSE OneLonger(SeqsUpTo(S, n - 1), S)

\* The workspace: "sample" has up to MaxPages pages of up to MaxUsers of the
\* sample records, "few" the same with the first two sample records only;
\* "every" has a single page of at most one record, of any shape a record
\* can have.
FewUsers == {u \in SampleUsers : u.id \in {<<"U1">>, <<"U3">>}}

PageContents(dir) ==
    CASE dir = "sample" -> SeqsUpTo(SampleUsers, MaxUsers)
      [] dir = "few" -> SeqsUpTo(FewUsers, MaxUsers)
      [] OTHER -> {<<>>} \cup {<<u>> : u \in UserRecords}

LastPage(dir) == IF dir \in {"sample", "few"} THEN MaxPages ELSE 1

\* response_metadata of a successful page k: absent, without cursor, with an
\* empty cursor, or (when a page k+1 exists) with the cursor to it.
MetadataOptions(dir, k) ==
    { EmptyObject,
      [response_metadata |-> EmptyObject],
      [response_metadata |-> [next_cursor |-> EmptyString]] }
    \cup (IF k < LastPage(dir) THEN {[response_metadata |-> [next_cursor |-> CursorFor(k + 1)]]}
          ELSE {})

\* The value of data.users carries its JSON type: an array of user records, or
\* something that is no array.
JsonArray(items) == [type |-> "array", items |-> items]
JsonObject == [type |-> "object"]

\* Array.isArray
IsArray(v) == v.type = "array"

\* What UrlFetchApp.fetch can give for an admin.users.list request: it throws,
\* or returns a body that does not parse, or returns a JSON object.
UsersListResponses(dir, request) ==
    LET k == PageAsked(request)
    IN { [kind |-> "throws"], [kind |-> "garbage"],
         [kind |-> "json", data |-> [ok |-> FALSE, error |-> <<"not_authed">>]] }
       \cup (IF k = 0
             THEN {[kind |-> "json", data |-> [ok |-> FALSE, error |-> <<"invalid_cursor">>]]}
             ELSE { [kind |-> "json", data |-> [ok |-> TRUE] @@ u @@ m] :
                      u \in {EmptyObject, [users |-> JsonObject]},
                      m \in {EmptyObject, [response_metadata |-> [next_cursor |-> CursorFor(2)]]} }
                  \cup
                  { [kind |-> "json", data |-> [ok |-> TRUE, users |-> JsonArray(us)] @@ m] :
                      us \in PageContents(dir), m \in MetadataOptions(dir, k) })

PostMessageResponses ==
    { [kind |-> "throws"], [kind |-> "garbage"],
      [kind |-> "json", data |-> [ok |-> FALSE, error |-> <<"channel_not_found">>]],
      [kind |-> "json", data |-> [ok |-> TRUE]] }


\* A page as the claims call it successful: ok = true and users an array.
Successful(response) ==
    /\ response.kind = "json"
    /\ response.data.ok
    /\ Has(response.data, "users")
    /\ IsArray(response.data.users)

NextCursorOf(data) ==
    IF Has(data, "response_metadata") /\ Has(data.response_metadata, "next_cursor")
       /\ data.response_metadata.next_cursor # EmptyString
    THEN data.response_metadata.next_cursor
    ELSE EmptyString

\* ------------------------------------ notifySlackAboutGuestsWithoutExpiration
\* The run's local state after a step:
\*   [pc, cursor, guests, log, propagated]
Returned(c, g, l) ==
    [pc |-> "done", cursor |-> c, guests |-> g, log |-> l, propagated |-> FALSE]

\* A function without the catch: the exception leaves it, nothing is logged.
TopLevelCatch_Rethrows(c, g, l) ==
    [pc |-> "done", cursor |-> c, guests |-> g, log |-> l, propagated |-> TRUE]

\* catch (e) { Logger.log('An error occurred: ' + e.message); }
TopLevelCatch(c, g, l) == Returned(c, g, Append(l, "An error occurred"))

\* A payload that never carries the cursor.
BuildPayload_DropsCursor(tok, team, cur) ==
    << <<<<"token">>, tok>>, <<<<"team_id">>, team>>, <<<<"limit">>, NumberToString(limit)>> >>

\* The payload object of one admin.users.list request, as (key, value) pairs.
BuildPayload(tok, team, cur) ==
    << <<<<"token">>, tok>>, <<<<"team_id">>, team>>, <<<<"limit">>, NumberToString(limit)>> >>
    \o (IF cur # EmptyString THEN << <<<<"cursor">>, cur>> >> ELSE <<>>)

UsersListRequest(tok, team, cur) ==
    [url |-> UsersListUrl, method |-> "post",
     authorization |-> <<"Bearer ">> \o tok,
     contentType |-> "application/x-www-form-urlencoded",
     payload |-> encodeQueryData(BuildPayload(tok, team, cur))]

\* A loop condition that never fails.
LoopContinues_Always(c) == TRUE

\* } while (cursor);
LoopContinues(c) == c # EmptyString

\* A tail that goes on to post whatever the count is.
AfterLoop_AlwaysPosts(c, g, l) ==
    [pc |-> "post", cursor |-> c, guests |-> g,
     log |-> Append(l, "Guests without expiration found"), propagated |-> FALSE]

\* After the loop: log the count, then post the summary or log that there is
\* nothing to post.
AfterLoop(c, g, l) ==
    LET l1 == Append(l, "Guests without expiration found")
    IN IF Len(g) > 0
       THEN [pc |-> "post", cursor |-> c, guests |-> g, log |-> l1, propagated |-> FALSE]
       ELSE Returned(c, g, Append(l1, "No active guests without expiration found."))

\* A branch that logs the error and leaves the loop without returning.
OnNotOk_LeavesLoopOnly(c, g, l) ==
    AfterLoop(c, g, l \o <<"Error fetching data from Slack API", "Response">>)

\* if (!data.ok) { log; log; return; }
OnNotOk(c, g, l) ==
    Returned(c, g, l \o <<"Error fetching data from Slack API", "Response">>)

\* if (!users || !Array.isArray(users)) { log; return; }
OnUnexpectedUsers(c, g, l) ==
    Returned(c, g, Append(l, "Unexpected data structure for users"))

\* One pass of the do-while body on the response of the fetch, and what
\* follows the loop when it ends.
HandleResponse(response) ==
    IF response.kind # "json"
    THEN TopLevelCatch(cursor, guestsWithoutExpiration, log)
    ELSE LET data == response.data
         IN IF ~data.ok
            THEN OnNotOk(cursor, guestsWithoutExpiration, log)
            ELSE LET c == NextCursorOf(data)
                 IN IF ~Has(data, "users") \/ ~IsArray(data.users)
                    THEN OnUnexpectedUsers(c, guestsWithoutExpiration, log)
                    ELSE LET acc == ForEachUser(
                                       [guests |-> guestsWithoutExpiration,
                                        log |-> Append(log, "Total users retrieved in this batch")],
                                       data.users.items)
                         IN IF LoopContinues(c)
                            THEN [pc |-> "fetch", cursor |-> c, guests |-> acc.guests,
                                  log |-> acc.log, propagated |-> FALSE]
                            ELSE AfterLoop(c, acc.guests, acc.log)

\* A check of the token alone.
ConfigCheck_TokenOnly(tok, team) ==
    IF tok = NoProperty \/ tok = EmptyString
    THEN <<"SLACK_USER_TOKEN is missing in script properties.">>
    ELSE <<>>

\* if (!token) { log; return; }  if (!teamId) { log; return; }
\* The log entries of the check that fails; none when both are set.
ConfigCheck(tok, team) ==
    IF tok = NoProperty \/ tok = EmptyString
    THEN <<"SLACK_USER_TOKEN is missing in script properties.">>
    ELSE IF team = EmptyString
    THEN <<"Team ID is missing.">>
    ELSE <<>>

\* The function up to its first request: read the token, check token and team.
Start ==
    /\ pc = "start"
    /\ log' = log \o ConfigCheck(token, teamId)
    /\ pc' = IF ConfigCheck(token, teamId) # <<>> THEN "done" ELSE "fetch"
    /\ UNCHANGED <<directory, token, teamId, channel, cursor, guestsWithoutExpiration,
                   requests, requestCount, responses, posts, postResults, propagated>>
    /\ UNCHANGED driveVars

\* One admin.users.list request, its response, and everything the function
\* does with it up to the next request or the return.
FetchPage ==
    /\ pc = "fetch"
    /\ requestCount < MaxRequests
    /\ \E request \in {UsersListRequest(token, teamId, cursor)} :
         \E response \in UsersListResponses(directory, request) :
           \E r \in {HandleResponse(response)} :
             /\ requests' = Append(requests, request)
             /\ requestCount' = requestCount + 1
             /\ responses' = Append(responses, response)
             /\ pc' = r.pc
             /\ cursor' = r.cursor
             /\ guestsWithoutExpiration' = r.guests
             /\ log' = r.log
             /\ propagated' = r.propagated
    /\ UNCHANGED <<directory, token, teamId, channel, posts, postResults>>
    /\ UNCHANGED driveVars

\* postToSlack's own try/catch around fetch and JSON.parse.
PostLog(result, l) ==
    IF result.kind # "json"
    THEN Append(l, "An error occurred while posting to Slack")
    ELSE IF ~result.data.ok
    THEN l \o <<"Error posting to Slack", "Full response">>
    ELSE Append(l, "Message posted successfully to Slack channel")

PostRequest(chan, message, tok) ==
    [url |-> PostMessageUrl, method |-> "post",
     authorization |-> <<"Bearer ">> \o tok,
     contentType |-> "application/json",
     payload |-> [channel |-> chan, text |-> message]]

\* postToSlack(channel, message, token), and the return that follows it.
PostToSlack ==
    /\ pc = "post"
    /\ \E result \in PostMessageResponses :
         /\ posts' = Append(posts, PostRequest(channel,
                                   FormatMessage(guestsWithoutExpiration), token))
         /\ postResults' = Append(postResults, result)
         /\ log' = PostLog(result, log)
    /\ pc' = "done"
    /\ UNCHANGED <<directory, token, teamId, channel, cursor, guestsWithoutExpiration,
                   requests, requestCount, responses, propagated>>
    /\ UNCHANGED driveVars

SlackInit(dir) ==
    /\ directory = dir
    /\ token \in TokenValues
    /\ teamId \in TeamIdValues
    /\ channel \in ChannelValues
    /\ pc = "start"
    /\ cursor = EmptyString
    /\ guestsWithoutExpiration = <<>>
    /\ requests = <<>>
    /\ requestCount = 0
    /\ responses = <<>>
    /\ posts = <<>>
    /\ postResults = <<>>
    /\ log = <<>>
    /\ propagated = FALSE

\* ------------------------------------------ Drive ownership-transfer script
EmailInputs == {"old@corp.example", "new@corp.example"}
FileIdInputs == {"1AbCdEf"}
RetainAnswers == {"yes", "no", "Yes", "n", ""}
AccessLevels == {"reader", "commenter", "writer", "editor"}
ExitStatuses == {0, 1}
RootFolderId == "0AJrootfolder"

GamRun(user, args, status) == [user |-> user, args |-> args, status |-> status]

\* Lines 3-25: the prompts, the reads and the choice of retain_role.
ReadInputs ==
    /\ dpc = "start"
    /\ \E old \in EmailInputs, new \in EmailInputs, f \in FileIdInputs,
          answer \in RetainAnswers, level \in AccessLevels :
         /\ old # new
         /\ old_owner_email' = old
         /\ new_owner_email' = new
         /\ file_id' = f
         /\ retain_access' = answer
         /\ IF answer = "yes"
            THEN /\ old_owner_access_level' = level
                 /\ retain_role' = level
            ELSE /\ old_owner_access_level' = ""
                 /\ retain_role' = "none"
    /\ echoed' = Append(echoed, "Starting the Google Drive file transfer process...")
    /\ dpc' = "add_acl"
    /\ UNCHANGED <<root_id, gam>>
    /\ UNCHANGED slackVars

\* gam user $old_owner_email add drivefileacl $file_id user $new_owner_email role writer
GamAddAcl ==
    /\ dpc = "add_acl"
    /\ \E status \in ExitStatuses :
         gam' = Append(gam, GamRun(old_owner_email,
                   <<"add", "drivefileacl", file_id, "user", new_owner_email, "role", "writer">>,
                   status))
    /\ dpc' = "claim"
    /\ UNCHANGED <<old_owner_email, new_owner_email, file_id, retain_access,
                   old_owner_access_level, retain_role, root_id, echoed>>
    /\ UNCHANGED slackVars

\* A test that deletes unless the answer is yes.
DeletesOldOwner_UnlessYes(answer) == answer # "yes"

\* if test "$retain_access" = "no"
DeletesOldOwner(answer) == answer = "no"

\* gam user $new_owner_email claim ownership $file_id retainrole $retain_role
GamClaim ==
    /\ dpc = "claim"
    /\ \E status \in ExitStatuses :
         gam' = Append(gam, GamRun(new_owner_email,
                   <<"claim", "ownership", file_id, "retainrole", retain_role>>, status))
    /\ dpc' = IF DeletesOldOwner(retain_access) THEN "delete_acl" ELSE "show_root"
    /\ UNCHANGED <<old_owner_email, new_owner_email, file_id, retain_access,
                   old_owner_access_level, retain_role, root_id, echoed>>
    /\ UNCHANGED slackVars

\* gam user $new_owner_email delete drivefileacl $file_id $old_owner_email
GamDeleteAcl ==
    /\ dpc = "delete_acl"
    /\ \E status \in ExitStatuses :
         gam' = Append(gam, GamRun(new_owner_email,
                   <<"delete", "drivefileacl", file_id, old_owner_email>>, status))
    /\ dpc' = "show_root"
    /\ UNCHANGED <<old_owner_email, new_owner_email, file_id, retain_access,
                   old_owner_access_level, retain_role, root_id, echoed>>
    /\ UNCHANGED slackVars

\* set root_id (gam user $new_owner_email show fileinfo root id | grep | awk):
\* a gam that fails prints no id line, and root_id is then empty.
GamShowRoot ==
    /\ dpc = "show_root"
    /\ \E status \in ExitStatuses :
         /\ gam' = Append(gam, GamRun(new_owner_email,
                      <<"show", "fileinfo", "root", "id">>, status))
         /\ root_id' = IF status = 0 THEN RootFolderId ELSE ""
    /\ dpc' = "move"
    /\ UNCHANGED <<old_owner_email, new_owner_email, file_id, retain_access,
                   old_owner_access_level, retain_role, echoed>>
    /\ UNCHANGED slackVars

\* gam user $new_owner_email move drivefile $file_id parentid $root_id, and
\* the closing echo.
GamMove ==
    /\ dpc = "move"
    /\ \E status \in ExitStatuses :
         gam' = Append(gam, GamRun(new_owner_email,
                   <<"move", "drivefile", file_id, "parentid", root_id>>, status))
    /\ echoed' = Append(echoed, "Google Drive file transfer process completed!")
    /\ dpc' = "done"
    /\ UNCHANGED <<old_owner_email, new_owner_email, file_id, retain_access,
                   old_owner_access_level, retain_role, root_id>>
    /\ UNCHANGED slackVars

DriveUnset ==
    /\ old_owner_email = ""
    /\ new_owner_email = ""
    /\ file_id = ""
    /\ retain_access = ""
    /\ old_owner_access_level = ""
    /\ retain_role = ""
    /\ root_id = ""
    /\ gam = <<>>
    /\ echoed = <<>>

\* ---------------------------------------------------------- specifications
\* The notifier's runs; the Drive script is not running.
Init == SlackInit("sample") /\ dpc = "idle" /\ DriveUnset

Next == Start \/ FetchPage \/ PostToSlack

Spec == Init /\ [][Next]_vars

\* The control flow of the three steps alone.  Every step of Next is a step
\* of Advance, and Advance can be taken exactly when Next can: fetch always
\* returns or throws.
Advance ==
    \/ /\ pc = "start"
       /\ pc' \in {"fetch", "done"}
       /\ requestCount' = requestCount
    \/ /\ pc = "fetch"
       /\ requestCount < MaxRequests
       /\ pc' \in {"fetch", "post", "done"}
       /\ requestCount' = requestCount + 1
    \/ /\ pc = "post"
       /\ pc' = "done"
       /\ requestCount' = requestCount

\* The run is a single thread of blocking calls: a step that can be taken is
\* taken.  Termination does not depend on the shape of the records, and the
\* fair runs are those over the "few" workspace.
FairInit == SlackInit("few") /\ dpc = "idle" /\ DriveUnset

FairSpec == FairInit /\ [][Next]_vars /\ WF_<<pc, requestCount>>(Advance)

\* The Drive script's runs; the notifier is not running.
DriveInit ==
    /\ dpc = "start" /\ DriveUnset
    /\ directory = "sample"
    /\ token = NoProperty /\ teamId = EmptyString /\ channel = EmptyString
    /\ pc = "idle" /\ cursor = EmptyString /\ guestsWithoutExpiration = <<>>
    /\ requests = <<>> /\ requestCount = 0
    /\ responses = <<>> /\ posts = <<>> /\ postResults = <<>>
    /\ log = <<>> /\ propagated = FALSE

DriveNext == ReadInputs \/ GamAddAcl \/ GamClaim \/ GamDeleteAcl \/ GamShowRoot \/ GamMove

DriveSpec == DriveInit /\ [][DriveNext]_vars

\* Configured runs on a one-page workspace whose record has any shape.
EveryRecordInit ==
    /\ directory = "every"
    /\ token \in TokenValues \ {NoProperty, EmptyString}
    /\ teamId \in TeamIdValues \ {EmptyString}
    /\ channel \in ChannelValues
    /\ pc = "start"
    /\ cursor = EmptyString
    /\ guestsWithoutExpiration = <<>>
    /\ requests = <<>>
    /\ requestCount = 0
    /\ responses = <<>>
    /\ posts = <<>>
    /\ postResults = <<>>
    /\ log = <<>>
    /\ propagated = FALSE
    /\ dpc = "idle" /\ DriveUnset

EveryRecordSpec == EveryRecordInit /\ [][Next]_vars

\* ================================================================== claims
\* What the properties below say about a run, read off the requests, the
\* responses, the posts and the log.

RECURSIVE UsersOf(_)
UsersOf(resps) ==
    IF resps = <<>> THEN <<>>
    ELSE (IF Successful(Head(resps)) THEN Head(resps).data.users.items ELSE <<>>)
         \o UsersOf(Tail(resps))

ServedUsers == UsersOf(responses)

AllSuccessful == \A k \in 1..Len(responses) : Successful(responses[k])

IsSet(u, flag) == flag \in DOMAIN u /\ u[flag] = TRUE

IsGuest(u) == IsSet(u, "is_restricted") \/ IsSet(u, "is_ultra_restricted")

LacksExpiration(u) == "expiration_ts" \notin DOMAIN u \/ u.expiration_ts = 0

AtExcludedDomain(u) ==
    /\ "email" \in DOMAIN u
    /\ Len(u.email) >= 2
    /\ u.email[Len(u.email) - 1] = "@"
    /\ u.email[Len(u.email)] = "domain.com"

\* The four tests of the filter.
PassesFilter(u) ==
    /\ ~IsSet(u, "is_deleted")
    /\ IsGuest(u)
    /\ ~AtExcludedDomain(u)
    /\ LacksExpiration(u)

Contains(text, piece) ==
    \E i \in 0..(Len(text) - Len(piece)) : SubSeq(text, i + 1, i + Len(piece)) = piece

Occurrences(text, atom) == Cardinality({i \in 1..Len(text) : text[i] = atom})

EmailShown(u) == IF "email" \in DOMAIN u THEN u.email ELSE <<"undefined">>

CreationShown(u) ==
    IF "date_created" \in DOMAIN u /\ u.date_created \in {1, 1722211200}
    THEN (IF u.date_created = 1
          THEN <<"1970-01-01T00", ":", "00", ":", "01.000Z">>
          ELSE <<"2024-07-29T00", ":", "00", ":", "00.000Z">>)
    ELSE <<"Unknown">>

\* The text has a block with the record's email, name, creation time and id.
ListsRecord(text, u) ==
    Contains(text, <<"*Email*", ":", " ">> \o EmailShown(u)
                   \o <<"\n*Name*", ":", " ">> \o u.full_name
                   \o <<"\n*Creation Time*", ":", " ">> \o CreationShown(u)
                   \o <<"\n*User ID*", ":", " ">> \o u.id)

ListsAll(text, records) ==
    /\ Occurrences(text, "*Email*") = Len(records)
    /\ \A i \in 1..Len(records) : ListsRecord(text, records[i])

RunOverAllPages == pc = "done" /\ Configured /\ responses # <<>> /\ AllSuccessful

\* C1 as stated: with token and team configured and every page successful, a
\* run over pages holding N guest records without expiration timestamp posts
\* exactly one message, and its text lists all N records.
C1_OneMessageListsEveryGuest ==
    RunOverAllPages =>
        LET lacking == SelectSeq(ServedUsers, LAMBDA u : IsGuest(u) /\ LacksExpiration(u))
        IN /\ Len(posts) = 1
           /\ ListsAll(posts[1].payload.text, lacking)

\* C1 as amended: with token and team configured and every page successful, a
\* run over pages holding N >= 1 records that pass the filter makes exactly
\* one chat.postMessage request, to the configured channel, whose text lists
\* all N records; with N = 0 it makes none.
C1_OneMessageListsEveryMatch ==
    RunOverAllPages =>
        LET matching == SelectSeq(ServedUsers, PassesFilter)
        IN IF Len(matching) >= 1
           THEN /\ Len(posts) = 1
                /\ posts[1].url = PostMessageUrl
                /\ posts[1].payload.channel = channel
                /\ ListsAll(posts[1].payload.text, matching)
           ELSE posts = <<>>

C1_TwoMatchesOnTwoPages ==
    /\ RunOverAllPages
    /\ Len(responses) = 2
    /\ Len(SelectSeq(ServedUsers, PassesFilter)) = 2
    /\ Len(posts) = 1

\* C2: a record of a fetched page is in guestsWithoutExpiration if and only if
\* it is not deleted, is a guest, is not at the excluded domain and has no
\* expiration timestamp (absent or zero): the accumulated entries are, in
\* order, those of the served records that pass the four tests.
C2_AddedIffFourTestsPass ==
    LET matching == SelectSeq(ServedUsers, PassesFilter)
    IN /\ Len(guestsWithoutExpiration) = Len(matching)
       /\ \A i \in 1..Len(matching) : guestsWithoutExpiration[i].id = matching[i].id
       /\ \A i \in 1..Len(ServedUsers) :
            LET u == ServedUsers[i]
            IN /\ ("expiration_ts" \in DOMAIN u /\ u.expiration_ts # 0)
                    => \A j \in 1..Len(guestsWithoutExpiration) :
                          Len(ServedUsers) = 1 => guestsWithoutExpiration[j].id # u.id
               /\ (Len(ServedUsers) = 1 /\ PassesFilter(u))
                    => guestsWithoutExpiration = <<GuestEntry(u)>>

C2_GuestWithZeroExpirationAdded ==
    /\ directory = "every"
    /\ Len(ServedUsers) = 1
    /\ "expiration_ts" \in DOMAIN ServedUsers[1]
    /\ ServedUsers[1].expiration_ts = 0
    /\ "email" \in DOMAIN ServedUsers[1]
    /\ Len(ServedUsers[1].email) = 5
    /\ Len(guestsWithoutExpiration) = 1

\* The cursor a response hands out: its response_metadata.next_cursor when
\* that is present and not empty.
HandsOutCursor(response) ==
    /\ "response_metadata" \in DOMAIN response.data
    /\ "next_cursor" \in DOMAIN response.data.response_metadata
    /\ response.data.response_metadata.next_cursor # <<>>

\* C3: the first request carries no cursor; after a successful response k with
\* a non-empty next_cursor, request k+1 is the run's next step and carries
\* exactly that cursor; after a successful response without one, no further
\* request is made; every request carries limit = 100 and the team id.
CarriesLimitAndTeam(fields) ==
    /\ HasKey(fields, <<"limit">>)
    /\ Lookup(fields, <<"limit">>) = <<"1", "0", "0">>
    /\ HasKey(fields, <<"team_id">>)
    /\ Lookup(fields, <<"team_id">>) = teamId

\* Request k carries no cursor when it is the first, and the cursor of
\* response k-1 otherwise.
CarriesCursorOfPrevious(k, fields) ==
    IF k = 1 THEN ~HasKey(fields, <<"cursor">>)
    ELSE /\ HasKey(fields, <<"cursor">>)
         /\ Lookup(fields, <<"cursor">>) = responses[k - 1].data.response_metadata.next_cursor

RequestAsClaimed(k, fields) ==
    /\ CarriesLimitAndTeam(fields)
    /\ CarriesCursorOfPrevious(k, fields)

C3_LoopFollowsTheCursor ==
    /\ \A k \in 1..Len(requests) :
         /\ requests[k].url = UsersListUrl
         /\ k > 1 => Successful(responses[k - 1]) /\ HandsOutCursor(responses[k - 1])
         /\ RequestAsClaimed(k, FormFields(requests[k].payload))
    /\ \A k \in 1..Len(responses) :
         Successful(responses[k]) =>
            IF HandsOutCursor(responses[k])
            THEN k = Len(requests) =>
                    /\ pc = "fetch"
                    /\ cursor = responses[k].data.response_metadata.next_cursor
                    /\ requestCount < MaxRequests
            ELSE /\ k = Len(requests)
                 /\ pc \in {"post", "done"}

C3_SecondRequestCarriesCursor ==
    /\ Len(requests) = 2
    /\ Successful(responses[1])
    /\ HandsOutCursor(responses[1])
    /\ FieldOf(requests[2].payload, <<"cursor">>) = <<"page", "2", "=">>
    /\ Contains(requests[2].payload, <<"cursor", "=", "page", "2", "%3D">>)

\* C4: a failed admin.users.list call (fetch throws, ok = false, or users is
\* missing or no array) ends the run: no further page is requested and no
\* chat.postMessage is sent, whatever was accumulated before.
C4_FailedPageAborts ==
    \A k \in 1..Len(responses) :
        ~Successful(responses[k]) =>
            /\ k = Len(requests)
            /\ pc = "done"
            /\ posts = <<>>

C4_FailureAfterMatches ==
    /\ Len(responses) = 2
    /\ Successful(responses[1])
    /\ responses[2].kind = "json"
    /\ ~responses[2].data.ok
    /\ Len(guestsWithoutExpiration) >= 1
    /\ pc = "done"

InLog(entry) == \E i \in 1..Len(log) : log[i] = entry

\* C5: no exception leaves the function, whatever the remote APIs do, and a
\* run that ended on an error path has logged the error.
C5_ErrorsCaughtAndLogged ==
    /\ ~propagated
    /\ pc = "done" =>
         /\ \A k \in 1..Len(responses) :
              /\ responses[k].kind # "json" => InLog("An error occurred")
              /\ (responses[k].kind = "json" /\ ~responses[k].data.ok)
                   => InLog("Error fetching data from Slack API")
              /\ (responses[k].kind = "json" /\ responses[k].data.ok
                  /\ ~Successful(responses[k]))
                   => InLog("Unexpected data structure for users")
         /\ \A k \in 1..Len(postResults) :
              /\ postResults[k].kind # "json"
                   => InLog("An error occurred while posting to Slack")
              /\ (postResults[k].kind = "json" /\ ~postResults[k].data.ok)
                   => InLog("Error posting to Slack")

C5_FetchThrewOnSecondPage ==
    /\ pc = "done"
    /\ Len(responses) = 2
    /\ responses[2].kind = "throws"
    /\ log[Len(log)] = "An error occurred"

\* C7: under fair scheduling every run terminates, and a run over successful
\* pages only of which the last alone has no next cursor has asked for each
\* page exactly once, in order.
C7_TerminatesWithOneRequestPerPage ==
    /\ <>(pc = "done")
    /\ [](RunOverAllPages =>
            /\ Len(requests) = Len(responses)
            /\ \A k \in 1..Len(requests) : PageAsked(requests[k]) = k
            /\ \A k \in 1..Len(responses) : HandsOutCursor(responses[k]) <=> k < Len(responses))

C7_EveryPageAsked ==
    /\ RunOverAllPages
    /\ Len(requests) = MaxPages
    /\ PageAsked(requests[MaxPages]) = MaxPages

\* C8: chat.postMessage is requested at most once and never again after a
\* failure, only after the last page was fetched and processed, and only with
\* at least one accumulated guest; a run without a match posts nothing and
\* ends on the log entry saying so.
C8_PostOnceAfterLastPage ==
    /\ Len(posts) <= 1
    /\ posts # <<>> =>
         /\ pc = "done"
         /\ Len(guestsWithoutExpiration) > 0
         /\ responses # <<>>
         /\ AllSuccessful
         /\ ~HandsOutCursor(responses[Len(responses)])
         /\ Len(requests) = Len(responses)
         /\ Len(SelectSeq(ServedUsers, PassesFilter)) > 0
    /\ (RunOverAllPages /\ SelectSeq(ServedUsers, PassesFilter) = <<>>) =>
         /\ posts = <<>>
         /\ log[Len(log)] = "No active guests without expiration found."

C8_FailedPostNotRetried ==
    /\ pc = "done"
    /\ Len(posts) = 1
    /\ postResults[1].kind = "json"
    /\ ~postResults[1].data.ok
    /\ Len(responses) = 2

\* C9: with the token property missing or the team id empty, the run logs
\* which one is missing and returns without any request.
C9_MissingConfigurationStops ==
    ~Configured =>
        /\ requests = <<>>
        /\ posts = <<>>
        /\ pc \in {"start", "done"}
        /\ pc = "done" =>
             log = IF token \in {NoProperty, EmptyString}
                   THEN <<"SLACK_USER_TOKEN is missing in script properties.">>
                   ELSE <<"Team ID is missing.">>

C9_TeamIdMissing ==
    /\ pc = "done"
    /\ token = <<"xoxp-1">>
    /\ teamId = <<>>
    /\ log = <<"Team ID is missing.">>

IsGam(run, verb) == run.args[1] = verb

\* C6 as stated: once a gam command of the Drive script has failed, no gam
\* command after it is executed.
C6_FailedGamEndsScript ==
    \A i \in 1..Len(gam) : gam[i].status # 0 => i = Len(gam)

\* C10: the gam commands run in a fixed order, add (new owner as writer)
\* before claim before move to the new owner's root; the claim's retainrole
\* is the entered access level if and only if the answer is exactly "yes" and
\* "none" otherwise; the old owner's ACL is deleted if and only if the answer
\* is exactly "no".
C10_OrderRetainRoleAndDelete ==
    /\ Len(gam) >= 1 =>
         /\ gam[1].user = old_owner_email
         /\ gam[1].args = <<"add", "drivefileacl", file_id, "user", new_owner_email,
                            "role", "writer">>
    /\ Len(gam) >= 2 =>
         /\ gam[2].user = new_owner_email
         /\ gam[2].args = <<"claim", "ownership", file_id, "retainrole",
                            IF retain_access = "yes" THEN old_owner_access_level
                            ELSE "none">>
    /\ \A j \in 1..Len(gam) :
         /\ IsGam(gam[j], "claim") => j = 2
         /\ IsGam(gam[j], "add") => j = 1
         /\ IsGam(gam[j], "move") =>
              /\ j > 2
              /\ j = Len(gam)
              /\ gam[j].user = new_owner_email
              /\ gam[j].args = <<"move", "drivefile", file_id, "parentid", root_id>>
         /\ IsGam(gam[j], "delete") =>
              /\ j = 3
              /\ retain_access = "no"
              /\ gam[j].args = <<"delete", "drivefileacl", file_id, old_owner_email>>
    /\ (Len(gam) >= 3 /\ retain_access = "no") => IsGam(gam[3], "delete")
    /\ dpc = "done" =>
         /\ IsGam(gam[Len(gam)], "move")
         /\ Len(gam) = IF retain_access = "no" THEN 5 ELSE 4

C10_OtherAnswerKeepsAcl ==
    /\ dpc = "done"
    /\ retain_access = "Yes"
    /\ gam[2].args[5] = "none"
    /\ \A j \in 1..Len(gam) : ~IsGam(gam[j], "delete")
    /\ \A j \in 1..Len(gam) : gam[j].status = 0

====
